---------------------------- MODULE Spec2Model ----------------------------
(***************************************************************************)
(* The game store of idlarz (src/src/stores/gameStore.ts): the tile grid,  *)
(* the resource bundle, the resource rates, and the three store operations *)
(* buyTile, upgradeCastle and tick, together with the adjacency test of    *)
(* the Tile component and the timer loop of the Home page.                 *)
(*                                                                         *)
(* Numbers.  A JavaScript number is modelled as an exact rational <<n, d>> *)
(* in lowest terms with d > 0; NaN is <<0, 0>>.  Rounding of doubles is    *)
(* not modelled.  Reading a key an object does not have gives undefined,   *)
(* which every arithmetic operator converts to NaN.                        *)
(*                                                                         *)
(* Objects.  A JavaScript object is a function from its keys (strings) to  *)
(* its values.  An optional value that may be null is a sequence of length *)
(* 0 (null) or 1.                                                          *)
(***************************************************************************)
EXTENDS Integers, Sequences, FiniteSets, TLC

----------------------------------------------------------------------------
(* Bounds of the model *)

\* the number of tick calls in one behaviour
MaxTicks == 2

\* the largest elapsed time the timer reports, in half seconds
MaxDelta == 2

\* the largest amount held or asked when the affordability test is probed
MaxAmount == 2

\* the clock steps of one behaviour of the page
MaxClock == 8

\* the timer firings of one behaviour of the page
MaxFirings == 4

\* the tiles bought in a grid whose modifiers are computed
MaxOwned == 3

----------------------------------------------------------------------------
(* JavaScript numbers *)

NaN == <<0, 0>>

isNaN(a) == a[2] = 0

Abs(n) == IF n < 0 THEN -n ELSE n

RECURSIVE GCD(_, _)
GCD(a, b) == IF b = 0 THEN a ELSE GCD(b, a % b)

\* the number n / d
Num(n, d) ==
  IF d = 0 THEN NaN
  ELSE LET g == GCD(Abs(n), Abs(d))
           s == IF d < 0 THEN -1 ELSE 1
       IN  <<(s * n) \div g, (s * d) \div g>>

Whole(n) == <<n, 1>>

\* a + b
Add(a, b) ==
  IF isNaN(a) \/ isNaN(b) THEN NaN
  ELSE Num(a[1] * b[2] + b[1] * a[2], a[2] * b[2])

\* a - b
Sub(a, b) ==
  IF isNaN(a) \/ isNaN(b) THEN NaN
  ELSE Num(a[1] * b[2] - b[1] * a[2], a[2] * b[2])

\* a * b
Mul(a, b) ==
  IF isNaN(a) \/ isNaN(b) THEN NaN
  ELSE Num(a[1] * b[1], a[2] * b[2])

\* a >= b: false when either side is NaN
Geq(a, b) == ~isNaN(a) /\ ~isNaN(b) /\ a[1] * b[2] >= b[1] * a[2]

\* a < b: false when either side is NaN
Lt(a, b) == ~isNaN(a) /\ ~isNaN(b) /\ a[1] * b[2] < b[1] * a[2]

\* a === b on numbers: NaN equals nothing, itself included
NumEq(a, b) == ~isNaN(a) /\ ~isNaN(b) /\ a = b

\* Math.pow(a, k) for an integer k >= 0
RECURSIVE Pow(_, _)
Pow(a, k) == IF k = 0 THEN Whole(1) ELSE Mul(a, Pow(a, k - 1))

\* obj[key] used as a number: undefined (a missing key) converts to NaN
Get(obj, key) == IF key \in DOMAIN obj THEN obj[key] ELSE NaN

----------------------------------------------------------------------------
(* Types (src/src/types/game.ts) *)

\* the keys of interface Resources
Resources == {"gold", "wood", "stone", "coal", "food", "xp"}

----------------------------------------------------------------------------
(* Configuration (@/config/gameConfig, imported by the store) *)

GRID_SIZE == 4

GRID_HEIGHT == 3

TILE_PURCHASE_COST == 3

\* the period of the timer, in milliseconds
TICK_RATE == 50

INITIAL_RESOURCES ==
  [r \in Resources |->
     IF r = "gold" THEN Whole(5) ELSE IF r = "wood" THEN Whole(1) ELSE Whole(0)]

BASE_GENERATION_RATES ==
  [r \in Resources |-> IF r = "gold" THEN Whole(1) ELSE Whole(0)]

CASTLE_BASE_RATES ==
  [gold |-> Whole(0), wood |-> Whole(1), stone |-> Whole(1), coal |-> Whole(0),
   food |-> Whole(1)]

\* an object without keys
NoKeys == [r \in {} |-> Whole(1)]

BIOMES ==
  [empty     |-> [resourceModifiers |-> NoKeys],
   castle    |-> [resourceModifiers |-> NoKeys],
   grounds   |-> [resourceModifiers |-> NoKeys],
   forest    |-> [resourceModifiers |-> [wood |-> Num(3, 2)]],
   mountains |-> [resourceModifiers |-> [stone |-> Num(3, 2), food |-> Num(1, 2)]]]

CASTLE_UPGRADE ==
  [maxLevel        |-> 3,
   levelMultiplier |-> Num(3, 2),
   upgradeCosts    |-> << [gold |-> Whole(3), wood |-> Whole(1)],
                          [gold |-> Whole(4), wood |-> Whole(2), stone |-> Whole(1)] >>]

----------------------------------------------------------------------------
(* The store (src/src/stores/gameStore.ts) *)

\* Math.floor(GRID_SIZE / 2), Math.floor(GRID_HEIGHT / 2)
GRID_CENTER_X == GRID_SIZE \div 2

GRID_CENTER_Y == GRID_HEIGHT \div 2

Xs == 0 .. GRID_SIZE - 1

Ys == 0 .. GRID_HEIGHT - 1

\* the castle tile createInitialGrid places
InitialCastle ==
  [biome |-> "castle", isOwned |-> TRUE, level |-> 1,
   upgradeCost |-> <<CASTLE_UPGRADE.upgradeCosts[1]>>]

\* tiles[y][x]: every tile empty and unowned, the castle at the centre
createInitialGrid ==
  [y \in Ys |-> [x \in Xs |->
     IF y = GRID_CENTER_Y /\ x = GRID_CENTER_X
     THEN InitialCastle
     ELSE [biome |-> "empty", isOwned |-> FALSE]]]

\* the cells in the order of the nested loops: y outer, x inner
Cell(i) == [x |-> i % GRID_SIZE, y |-> i \div GRID_SIZE]

NumCells == GRID_SIZE * GRID_HEIGHT

\* tile.level || 1
LevelOr1(tile) ==
  IF "level" \in DOMAIN tile /\ tile.level # 0 THEN tile.level ELSE 1

\* the index of the first owned castle tile at or after cell i, NumCells if none
RECURSIVE FindOwnedCastle(_, _)
FindOwnedCastle(tiles, i) ==
  IF i >= NumCells THEN NumCells
  ELSE LET tile == tiles[Cell(i).y][Cell(i).x]
       IN  IF tile.isOwned /\ tile.biome = "castle" THEN i
           ELSE FindOwnedCastle(tiles, i + 1)

\* base after the first loop: the castle's rates, scaled by its level, added
CastleBase(tiles) ==
  LET i == FindOwnedCastle(tiles, 0)
  IN  IF i = NumCells THEN BASE_GENERATION_RATES
      ELSE LET tile == tiles[Cell(i).y][Cell(i).x]
               multiplier == Pow(CASTLE_UPGRADE.levelMultiplier, LevelOr1(tile) - 1)
           IN  [r \in DOMAIN BASE_GENERATION_RATES \cup DOMAIN CASTLE_BASE_RATES |->
                  IF r \in DOMAIN CASTLE_BASE_RATES
                  THEN Add(Get(BASE_GENERATION_RATES, r),
                           Mul(CASTLE_BASE_RATES[r], multiplier))
                  ELSE BASE_GENERATION_RATES[r]]

\* lines 57-59 assigning the modifier where the code multiplies by it
OverwriteBiome(modifiers, biome) ==
  LET m == BIOMES[biome].resourceModifiers
  IN  [r \in DOMAIN modifiers \cup DOMAIN m |->
         IF r \in DOMAIN m THEN m[r] ELSE modifiers[r]]

\* modifiers[resource] *= modifier for every entry of one biome
ApplyBiome(modifiers, biome) ==
  LET m == BIOMES[biome].resourceModifiers
  IN  [r \in DOMAIN modifiers \cup DOMAIN m |->
         IF r \in DOMAIN m THEN Mul(Get(modifiers, r), m[r]) ELSE modifiers[r]]

\* the modifiers literal the second loop starts from
InitialModifiers ==
  [gold |-> Whole(1), wood |-> Whole(1), stone |-> Whole(1), coal |-> Whole(1),
   food |-> Whole(1)]

\* the second loop from cell i on
RECURSIVE ScanModifiers(_, _, _)
ScanModifiers(tiles, i, modifiers) ==
  IF i >= NumCells THEN modifiers
  ELSE LET tile == tiles[Cell(i).y][Cell(i).x]
       IN  ScanModifiers(tiles, i + 1,
             IF tile.isOwned THEN ApplyBiome(modifiers, tile.biome) ELSE modifiers)

calculateResourceRates(tiles) ==
  LET base      == CastleBase(tiles)
      modifiers == ScanModifiers(tiles, 0, InitialModifiers)
      total     == [r \in DOMAIN BASE_GENERATION_RATES |->
                      Mul(Get(base, r), Get(modifiers, r))]
  IN  [base |-> base, modifiers |-> modifiers, total |-> total]

\* line 72 with a diagonal for the last direction
directionsMistyped == << <<-1, 0>>, <<1, 0>>, <<0, -1>>, <<1, 1>> >>

\* line 72: the four directions
directions == << <<-1, 0>>, <<1, 0>>, <<0, -1>>, <<0, 1>> >>

\* lines 71-80 with the diagonals counted as neighbours
isAdjacentOrDiagonal(tiles, x, y) ==
  \E dx \in {-1, 0, 1}, dy \in {-1, 0, 1} :
    /\ <<dx, dy>> # <<0, 0>>
    /\ x + dx >= 0 /\ x + dx < GRID_SIZE
    /\ y + dy >= 0 /\ y + dy < GRID_HEIGHT
    /\ tiles[y + dy][x + dx].isOwned

\* lines 71-80: some direction leads to an owned tile inside the grid
isAdjacentToOwned(tiles, x, y) ==
  \E k \in 1 .. Len(directions) :
    LET newX == x + directions[k][1]
        newY == y + directions[k][2]
    IN  /\ newX >= 0 /\ newX < GRID_SIZE
        /\ newY >= 0 /\ newY < GRID_HEIGHT
        /\ tiles[newY][newX].isOwned

\* line 107 without the test of the tile's owner
\* line 107 without the adjacency test
NotPurchasableWhenOwned(tiles, x, y) == tiles[y][x].isOwned

NotPurchasableIgnoringOwner(tiles, x, y) == ~isAdjacentToOwned(tiles, x, y)

\* line 107: tile.isOwned || !isAdjacentToOwned(state.tiles, x, y)
NotPurchasable(tiles, x, y) ==
  tiles[y][x].isOwned \/ ~isAdjacentToOwned(tiles, x, y)

\* a value with its typeof tag, for an argument that is a number or an object
NumberValue(n) == [typeof |-> "number", value |-> n]

ObjectValue(o) == [typeof |-> "object", value |-> o]

\* lines 82-89 reading only the gold of a cost object
canAffordGoldOfCost(res, cost) ==
  IF cost.typeof = "number"
  THEN Geq(res.gold, cost.value)
  ELSE "gold" \in DOMAIN cost.value => Geq(res.gold, cost.value["gold"])

\* lines 82-89 with some() in place of every()
canAffordSomeOfCost(res, cost) ==
  IF cost.typeof = "number"
  THEN Geq(res.gold, cost.value)
  ELSE \E r \in DOMAIN cost.value : Geq(Get(res, r), cost.value[r])

\* lines 82-89: a number is a gold cost, an object a cost per named resource
canAffordCost(res, cost) ==
  IF cost.typeof = "number"
  THEN Geq(res.gold, cost.value)
  ELSE \A r \in DOMAIN cost.value : Geq(Get(res, r), cost.value[r])

\* lines 117-119 without the filter
allBiomes == DOMAIN BIOMES

\* lines 117-119: the catalog's biomes but empty, castle and grounds
availableBiomes == DOMAIN BIOMES \ {"empty", "castle", "grounds"}

\* lines 127-130: the tile a purchase writes
BoughtTile(randomBiome) == [biome |-> randomBiome, isOwned |-> TRUE]

\* lines 136-139 without the deduction
ResourcesKept(res) == res

\* lines 136-139: the resources a purchase writes
ResourcesAfterPurchase(res) ==
  [res EXCEPT !.gold = Sub(res.gold, Whole(TILE_PURCHASE_COST))]

\* lines 154-164: the index of the first tile with biome castle at or after
\* cell i, NumCells if there is none
RECURSIVE FindCastle(_, _)
FindCastle(tiles, i) ==
  IF i >= NumCells THEN NumCells
  ELSE IF tiles[Cell(i).y][Cell(i).x].biome = "castle" THEN i
       ELSE FindCastle(tiles, i + 1)

\* line 166: !castle.upgradeCost || !castle.level
Unupgradeable(castle) ==
  \/ "upgradeCost" \notin DOMAIN castle
  \/ castle.upgradeCost = <<>>
  \/ "level" \notin DOMAIN castle
  \/ castle.level = 0

\* line 180 reading the entry of the level being left
SameUpgradeCost(level) ==
  IF level <= Len(CASTLE_UPGRADE.upgradeCosts)
  THEN <<CASTLE_UPGRADE.upgradeCosts[level]>>
  ELSE <<>>

\* line 180: CASTLE_UPGRADE.upgradeCosts[level] || null (the array is 0-based)
NextUpgradeCost(level) ==
  IF level + 1 <= Len(CASTLE_UPGRADE.upgradeCosts)
  THEN <<CASTLE_UPGRADE.upgradeCosts[level + 1]>>
  ELSE <<>>

\* lines 177-181 stepping the level by two
UpgradedCastleSkipping(castle) ==
  [castle EXCEPT !.level = castle.level + 2,
                 !.upgradeCost = NextUpgradeCost(castle.level)]

\* lines 177-181: the castle an upgrade writes
UpgradedCastle(castle) ==
  [castle EXCEPT !.level = castle.level + 1,
                 !.upgradeCost = NextUpgradeCost(castle.level)]

\* lines 184-187 deducting the gold only
DeductGoldOnly(res, cost) ==
  [r \in DOMAIN res |->
     IF r = "gold" /\ r \in DOMAIN cost THEN Sub(res[r], cost[r]) ELSE res[r]]

\* lines 184-187: newResources[resource] -= amount for every entry of the cost
Deduct(res, cost) ==
  [r \in DOMAIN res \cup DOMAIN cost |->
     IF r \in DOMAIN cost THEN Sub(Get(res, r), cost[r]) ELSE res[r]]

\* lines 202-209 counting whole seconds only
AccrueWholeSeconds(res, total, deltaTime) ==
  LET secondsElapsed == Whole(deltaTime \div 1000)
  IN  [r \in DOMAIN res \cup DOMAIN total |->
         IF r \in DOMAIN total
         THEN Add(Get(res, r), Mul(total[r], secondsElapsed))
         ELSE res[r]]

\* lines 203-209: newResources[resource] += rate * secondsElapsed for every
\* entry of the total rates
Accrue(res, total, deltaTime) ==
  LET secondsElapsed == Num(deltaTime, 1000)
  IN  [r \in DOMAIN res \cup DOMAIN total |->
         IF r \in DOMAIN total
         THEN Add(Get(res, r), Mul(total[r], secondsElapsed))
         ELSE res[r]]

----------------------------------------------------------------------------
(* The state of the store, and a record of the last call *)

VARIABLES
  tiles,             \* state.tiles
  resources,         \* state.resources
  resourceRates,     \* state.resourceRates
  resourceModifiers, \* state.resourceModifiers
  call,              \* the last call of the store: its name, arguments, result
  before,            \* the state the last call started from
  ticks,             \* the number of tick calls so far
  running,           \* the calls that have read their snapshot and not yet returned
  page               \* the Home page: the clock, lastTickTime.current, what it passed on

state == <<tiles, resources, resourceRates, resourceModifiers>>

vars ==
  <<tiles, resources, resourceRates, resourceModifiers, call, before, ticks,
    running, page>>

\* get(): the snapshot an operation reads
Snapshot ==
  [tiles |-> tiles, resources |-> resources, resourceRates |-> resourceRates,
   resourceModifiers |-> resourceModifiers]

\* the page before its first render
Unrendered ==
  [now |-> 0, lastTickTime |-> 0, mountTime |-> 0, passed |-> 0, previous |-> 0,
   steps |-> 0]

\* the elapsed times the timer reports, in milliseconds
Deltas == {500 * k : k \in 0 .. MaxDelta}

\* lines 91-100: the store's initial state
Init ==
  /\ tiles = createInitialGrid
  /\ resources = INITIAL_RESOURCES
  /\ resourceRates = calculateResourceRates(createInitialGrid)
  /\ resourceModifiers = calculateResourceRates(createInitialGrid).modifiers
  /\ call = [op |-> "create"]
  /\ before = Snapshot
  /\ ticks = 0
  /\ running = {}
  /\ page = Unrendered

\* a rejected call that has already charged the purchase
ReturnsCharged(c) ==
  /\ resources' = ResourcesAfterPurchase(resources)
  /\ UNCHANGED <<tiles, resourceRates, resourceModifiers>>
  /\ call' = c
  /\ before' = Snapshot
  /\ UNCHANGED <<running, page>>

\* lines 108, 113, 166, 169, 172: return false, with no set() before it
ReturnsUnchanged(c) ==
  /\ UNCHANGED state
  /\ call' = c
  /\ before' = Snapshot
  /\ UNCHANGED <<running, page>>

\* set({tiles, resources, resourceRates, resourceModifiers}), then return
SetAndReturn(newTiles, newResources, newRates, c) ==
  /\ tiles' = newTiles
  /\ resources' = newResources
  /\ resourceRates' = newRates
  /\ resourceModifiers' = newRates.modifiers
  /\ call' = c
  /\ before' = Snapshot
  /\ UNCHANGED <<running, page>>

\* lines 102-145
buyTile(x, y) ==
  LET c(ret) == [op |-> "buyTile", x |-> x, y |-> y, ret |-> ret]
  IN  /\ UNCHANGED ticks
      /\ IF NotPurchasable(tiles, x, y)
         THEN ReturnsUnchanged(c(FALSE))
         ELSE IF Lt(resources.gold, Whole(TILE_PURCHASE_COST))
         THEN ReturnsUnchanged(c(FALSE))
         ELSE \E randomBiome \in availableBiomes :
                LET newTiles == [tiles EXCEPT ![y][x] = BoughtTile(randomBiome)]
                IN  SetAndReturn(newTiles, ResourcesAfterPurchase(resources),
                                 calculateResourceRates(newTiles), c(TRUE))

\* lines 147-199
upgradeCastle ==
  LET i == FindCastle(tiles, 0)
      c(ret) == [op |-> "upgradeCastle", ret |-> ret]
  IN  /\ UNCHANGED ticks
      /\ IF i = NumCells
         THEN ReturnsUnchanged(c(FALSE))
         ELSE LET castleX == Cell(i).x
                  castleY == Cell(i).y
                  castle  == tiles[castleY][castleX]
              IN  IF Unupgradeable(castle)
                  THEN ReturnsUnchanged(c(FALSE))
                  ELSE IF castle.level >= CASTLE_UPGRADE.maxLevel
                  THEN ReturnsUnchanged(c(FALSE))
                  ELSE IF ~canAffordCost(resources, ObjectValue(castle.upgradeCost[1]))
                  THEN ReturnsUnchanged(c(FALSE))
                  ELSE LET newTiles ==
                             [tiles EXCEPT ![castleY][castleX] = UpgradedCastle(castle)]
                       IN  SetAndReturn(newTiles,
                                        Deduct(resources, castle.upgradeCost[1]),
                                        calculateResourceRates(newTiles), c(TRUE))

\* lines 201-212
tick(deltaTime) ==
  /\ ticks < MaxTicks
  /\ ticks' = ticks + 1
  /\ resources' = Accrue(resources, resourceRates.total, deltaTime)
  /\ UNCHANGED <<tiles, resourceRates, resourceModifiers>>
  /\ call' = [op |-> "tick", deltaTime |-> deltaTime]
  /\ before' = Snapshot
  /\ UNCHANGED <<running, page>>

Next ==
  \/ \E x \in Xs, y \in Ys : buyTile(x, y)
  \/ upgradeCastle
  \/ \E deltaTime \in Deltas : tick(deltaTime)

Spec == Init /\ [][Next]_vars

----------------------------------------------------------------------------
(* The adjacency test on its own: any ownership of the grid, any cell *)

\* src/unnamed/part_001 lines 51-69: the Tile component's isAdjacent
isAdjacent(grid, isOwned, x, y) ==
  IF isOwned THEN FALSE
  ELSE LET dirs == << <<x - 1, y>>, <<x + 1, y>>, <<x, y - 1>>, <<x, y + 1>> >>
       IN  \E k \in 1 .. Len(dirs) :
             LET adjX == dirs[k][1]
                 adjY == dirs[k][2]
             IN  /\ adjX >= 0 /\ adjX < GRID_SIZE
                 /\ adjY >= 0 /\ adjY < GRID_HEIGHT
                 /\ grid[adjY][adjX].isOwned

\* the grid in which exactly the cells of owned are owned
GridOwning(owned) ==
  [y \in Ys |-> [x \in Xs |->
     IF <<x, y>> \in owned
     THEN [biome |-> "forest", isOwned |-> TRUE]
     ELSE [biome |-> "empty", isOwned |-> FALSE]]]

InitAdjacency ==
  /\ \E owned \in SUBSET (Xs \X Ys) : tiles = GridOwning(owned)
  /\ resources = INITIAL_RESOURCES
  /\ resourceRates = calculateResourceRates(tiles)
  /\ resourceModifiers = resourceRates.modifiers
  /\ call = [op |-> "create"]
  /\ before = Snapshot
  /\ ticks = 0
  /\ running = {}
  /\ page = Unrendered

\* one evaluation of both adjacency tests
Probe(x, y) ==
  /\ call' = [op |-> "isAdjacentToOwned", x |-> x, y |-> y,
              ret |-> isAdjacentToOwned(tiles, x, y),
              isAdjacent |-> isAdjacent(tiles, tiles[y][x].isOwned, x, y)]
  /\ before' = Snapshot
  /\ UNCHANGED <<running, page>>
  /\ UNCHANGED <<tiles, resources, resourceRates, resourceModifiers, ticks>>

NextAdjacency == \E x \in Xs, y \in Ys : Probe(x, y)

SpecAdjacency == InitAdjacency /\ [][NextAdjacency]_vars

----------------------------------------------------------------------------
(* Vocabulary of the properties *)

\* p < q and p >= q on two numbers that are not NaN
Less(p, q) == p[1] * q[2] < q[1] * p[2]

AtLeast(p, q) == ~Less(p, q)

Cells == Xs \X Ys

OwnedCells(grid) == {c \in Cells : grid[c[2]][c[1]].isOwned}

\* an owned tile left, right, above or below (x, y), inside the grid
HasOwnedNeighbour(grid, x, y) ==
  \/ x > 0 /\ grid[y][x - 1].isOwned
  \/ x < GRID_SIZE - 1 /\ grid[y][x + 1].isOwned
  \/ y > 0 /\ grid[y - 1][x].isOwned
  \/ y < GRID_HEIGHT - 1 /\ grid[y + 1][x].isOwned

Gold(res) == res["gold"]

Cost == Whole(TILE_PURCHASE_COST)

\* the castle of a snapshot and what its next upgrade costs
CastleOf(grid) == grid[GRID_CENTER_Y][GRID_CENTER_X]

Bought == call.op = "buyTile" /\ call.ret

Refused == call.op = "buyTile" /\ ~call.ret

Upgraded == call.op = "upgradeCastle" /\ call.ret

NotUpgraded == call.op = "upgradeCastle" /\ ~call.ret

----------------------------------------------------------------------------
(* C1: buyTile(x, y) returns true exactly when the target tile is unowned, *)
(* one of its four neighbours inside the grid is owned, and the gold is at *)
(* least TILE_PURCHASE_COST.                                               *)
C1_BuyTileSucceedsIff ==
  call.op = "buyTile" =>
    (call.ret <=>
       /\ ~before.tiles[call.y][call.x].isOwned
       /\ HasOwnedNeighbour(before.tiles, call.x, call.y)
       /\ AtLeast(Gold(before.resources), Cost))

\* a tile with no owned neighbour is refused although the gold suffices
C1_Witness ==
  /\ Refused
  /\ ~before.tiles[call.y][call.x].isOwned
  /\ ~HasOwnedNeighbour(before.tiles, call.x, call.y)
  /\ AtLeast(Gold(before.resources), Cost)

(* C2: a buyTile that returns false leaves tiles, resources, resourceRates *)
(* and resourceModifiers as they were.                                     *)
C2_RefusedBuyChangesNothing ==
  Refused => Snapshot = before

\* an unowned tile next to an owned one is refused for lack of gold
C2_Witness ==
  /\ Refused
  /\ ~before.tiles[call.y][call.x].isOwned
  /\ HasOwnedNeighbour(before.tiles, call.x, call.y)
  /\ Less(Gold(before.resources), Cost)

(* C3: a successful buyTile(x, y) adds one owned tile; tile (x, y) is      *)
(* owned, has a biome other than empty, castle and grounds and neither     *)
(* level nor upgradeCost; every other tile, and every resource but gold,   *)
(* is unchanged; gold is lower by TILE_PURCHASE_COST; resourceRates is the *)
(* rate calculation of the new grid.                                       *)
C3_BuyTileEffect ==
  Bought =>
    /\ Cardinality(OwnedCells(tiles)) = Cardinality(OwnedCells(before.tiles)) + 1
    /\ tiles[call.y][call.x].isOwned
    /\ tiles[call.y][call.x].biome \in DOMAIN BIOMES \ {"empty", "castle", "grounds"}
    /\ DOMAIN tiles[call.y][call.x] = {"biome", "isOwned"}
    /\ \A c \in Cells \ {<<call.x, call.y>>} : tiles[c[2]][c[1]] = before.tiles[c[2]][c[1]]
    /\ Gold(resources) = Sub(Gold(before.resources), Cost)
    /\ DOMAIN resources = Resources
    /\ \A r \in Resources \ {"gold"} : resources[r] = before.resources[r]
    /\ resourceRates = calculateResourceRates(tiles)

\* a purchase that changes the rates
C3_Witness ==
  /\ Bought
  /\ resourceRates # before.resourceRates
  /\ Cardinality(OwnedCells(tiles)) >= 3

(* C4: upgradeCastle returns false and changes nothing when the castle is  *)
(* at CASTLE_UPGRADE.maxLevel, and when some resource named in the         *)
(* castle's stored upgrade cost is held in a smaller amount than the cost. *)
C4_UpgradeRefused ==
  LET castle == CastleOf(before.tiles)
      atMax  == castle.level >= CASTLE_UPGRADE.maxLevel
      short  == /\ castle.upgradeCost # <<>>
                /\ \E r \in DOMAIN castle.upgradeCost[1] :
                     Less(before.resources[r], castle.upgradeCost[1][r])
  IN  call.op = "upgradeCastle" /\ (atMax \/ short) =>
        ~call.ret /\ Snapshot = before

\* an upgrade is asked of a castle at the maximum level
C4_Witness ==
  /\ NotUpgraded
  /\ CastleOf(before.tiles).level = CASTLE_UPGRADE.maxLevel

(* C5: a successful upgradeCastle raises the castle's level by one, lowers *)
(* every resource named in the cost stored on the castle before the call   *)
(* by that amount, and leaves every other resource and every other tile    *)
(* unchanged.                                                              *)
C5_UpgradeEffect ==
  LET castle == CastleOf(before.tiles)
      cost   == castle.upgradeCost[1]
  IN  Upgraded =>
        /\ CastleOf(tiles).level = castle.level + 1
        /\ DOMAIN resources = Resources
        /\ \A r \in DOMAIN cost : resources[r] = Sub(before.resources[r], cost[r])
        /\ \A r \in Resources \ DOMAIN cost : resources[r] = before.resources[r]
        /\ \A c \in Cells \ {<<GRID_CENTER_X, GRID_CENTER_Y>>} :
             tiles[c[2]][c[1]] = before.tiles[c[2]][c[1]]

\* an upgrade of a castle with a bought tile beside it, paid in gold and wood
C5_Witness ==
  /\ Upgraded
  /\ Cardinality(OwnedCells(tiles)) >= 2
  /\ DOMAIN CastleOf(before.tiles).upgradeCost[1] = {"gold", "wood"}
  /\ resources["wood"] # before.resources["wood"]

(* C6: in every reachable state resourceRates is the rate calculation of   *)
(* the current tiles, resourceModifiers is resourceRates.modifiers, and    *)
(* total[r] == base[r] * modifiers[r] for every resource r.                *)
C6_RatesConsistent ==
  /\ resourceRates = calculateResourceRates(tiles)
  /\ resourceModifiers = resourceRates.modifiers
  /\ \A r \in Resources :
       /\ r \in DOMAIN resourceRates.total
       /\ r \in DOMAIN resourceRates.base
       /\ r \in DOMAIN resourceRates.modifiers
       /\ NumEq(resourceRates.total[r],
                Mul(resourceRates.base[r], resourceRates.modifiers[r]))

\* what the store does keep: the stored rates are those of the current tiles,
\* and total is base * modifiers for the five resources that have a modifier
RatesNeverStale ==
  /\ resourceRates = calculateResourceRates(tiles)
  /\ resourceModifiers = resourceRates.modifiers
  /\ \A r \in DOMAIN InitialModifiers :
       NumEq(resourceRates.total[r],
             Mul(resourceRates.base[r], resourceRates.modifiers[r]))

(* C7: tick(d) adds resourceRates.total[r] * d / 1000 to every resource r  *)
(* and changes nothing else; tick(0) leaves every resource unchanged.      *)
C7_TickAccrues ==
  call.op = "tick" =>
    /\ DOMAIN resources = Resources
    /\ \A r \in Resources :
         resources[r] = Add(before.resources[r],
                            Mul(before.resourceRates.total[r], Num(call.deltaTime, 1000)))
    /\ tiles = before.tiles
    /\ resourceRates = before.resourceRates
    /\ resourceModifiers = before.resourceModifiers
    /\ (call.deltaTime = 0 => resources = before.resources)
    /\ (call.deltaTime = 1000 =>
          \A r \in Resources :
            resources[r] = Add(before.resources[r], before.resourceRates.total[r]))

\* what tick does keep: the five resources that have a modifier accrue as
\* claimed, and tiles and rates stay
TickAccruesMaterials ==
  call.op = "tick" =>
    /\ \A r \in DOMAIN InitialModifiers :
         /\ ~isNaN(resources[r])
         /\ resources[r] = Add(before.resources[r],
                               Mul(before.resourceRates.total[r], Num(call.deltaTime, 1000)))
         /\ (call.deltaTime = 0 => resources[r] = before.resources[r])
    /\ tiles = before.tiles
    /\ resourceRates = before.resourceRates
    /\ resourceModifiers = before.resourceModifiers

(* C8: in every reachable state exactly one tile has biome castle; it is   *)
(* the tile at (floor(GRID_SIZE / 2), floor(GRID_HEIGHT / 2)) and it is    *)
(* owned.                                                                  *)
C8_OneCastleAtCentre ==
  /\ {c \in Cells : tiles[c[2]][c[1]].biome = "castle"}
       = {<<GRID_SIZE \div 2, GRID_HEIGHT \div 2>>}
  /\ tiles[GRID_HEIGHT \div 2][GRID_SIZE \div 2].isOwned

\* a purchase beside a castle that has been upgraded
C8_Witness ==
  /\ Bought
  /\ CastleOf(tiles).level >= 2
  /\ Cardinality(OwnedCells(tiles)) >= 2

(* C9: a tile that is owned stays owned and keeps its biome in every step. *)
C9_OwnershipMonotone ==
  [][\A c \in Cells :
       tiles[c[2]][c[1]].isOwned =>
         /\ tiles'[c[2]][c[1]].isOwned
         /\ tiles'[c[2]][c[1]].biome = tiles[c[2]][c[1]].biome]_vars

\* a bought tile, with an owned neighbour and gold enough for a purchase, is
\* asked for again
C9_Witness ==
  /\ Refused
  /\ before.tiles[call.y][call.x].isOwned
  /\ before.tiles[call.y][call.x].biome # "castle"
  /\ HasOwnedNeighbour(before.tiles, call.x, call.y)
  /\ AtLeast(Gold(before.resources), Cost)
  /\ tiles[call.y][call.x] = before.tiles[call.y][call.x]

(* C10: isAdjacentToOwned(grid, x, y) is true exactly when one of the     *)
(* cells (x-1, y), (x+1, y), (x, y-1), (x, y+1) is inside the grid and     *)
(* owned.                                                                  *)
C10_AdjacencyIff ==
  call.op = "isAdjacentToOwned" =>
    (call.ret <=> HasOwnedNeighbour(tiles, call.x, call.y))

\* the cell itself, a diagonal neighbour and the cell at the other end of the
\* row are owned, and the test is false
C10_Witness ==
  /\ call.op = "isAdjacentToOwned"
  /\ ~call.ret
  /\ call.x = 0 /\ call.y = 0
  /\ tiles[0][0].isOwned
  /\ tiles[1][1].isOwned
  /\ tiles[0][GRID_SIZE - 1].isOwned
  /\ tiles[GRID_HEIGHT - 1][0].isOwned

\* the Tile component's test is the store's, but false on an owned tile
TileIsAdjacentAgrees ==
  call.op = "isAdjacentToOwned" =>
    (call.isAdjacent <=> (~tiles[call.y][call.x].isOwned /\ call.ret))

----------------------------------------------------------------------------
(* The affordability test on its own: any holdings, any cost *)

\* the resources a probed cost names
CostKinds == {"gold", "wood", "stone"}

\* a flat cost, or an amount for each resource of some subset of CostKinds
ProbedCosts ==
  {NumberValue(Whole(n)) : n \in 0 .. MaxAmount + 1}
    \cup {ObjectValue(c) : c \in UNION {[S -> {Whole(n) : n \in 1 .. MaxAmount}] :
                                          S \in SUBSET CostKinds}}

InitAfford ==
  /\ tiles = createInitialGrid
  /\ resources \in [Resources -> {Whole(n) : n \in 0 .. MaxAmount}]
  /\ resourceRates = calculateResourceRates(createInitialGrid)
  /\ resourceModifiers = resourceRates.modifiers
  /\ call = [op |-> "create"]
  /\ before = Snapshot
  /\ ticks = 0
  /\ running = {}
  /\ page = Unrendered

\* one evaluation of canAffordCost
ProbeAfford(cost) ==
  /\ call' = [op |-> "canAffordCost", cost |-> cost,
              ret |-> canAffordCost(resources, cost)]
  /\ before' = Snapshot
  /\ UNCHANGED <<running, page>>
  /\ UNCHANGED <<tiles, resources, resourceRates, resourceModifiers, ticks>>

NextAfford == \E cost \in ProbedCosts : ProbeAfford(cost)

SpecAfford == InitAfford /\ [][NextAfford]_vars

(* C11: canAffordCost(resources, cost) with a number is true exactly when  *)
(* resources.gold >= cost; with a bundle it is true exactly when no        *)
(* resource the bundle names is held in a smaller amount than it asks.     *)
C11_AffordIff ==
  call.op = "canAffordCost" =>
    IF call.cost.typeof = "number"
    THEN call.ret <=> AtLeast(resources["gold"], call.cost.value)
    ELSE call.ret <=>
           ~\E r \in DOMAIN call.cost.value : Less(resources[r], call.cost.value[r])

\* a bundle of three resources is refused for the stone alone
C11_Witness ==
  /\ call.op = "canAffordCost"
  /\ call.cost.typeof = "object"
  /\ DOMAIN call.cost.value = CostKinds
  /\ ~call.ret
  /\ AtLeast(resources["gold"], call.cost.value["gold"])
  /\ AtLeast(resources["wood"], call.cost.value["wood"])
  /\ Less(resources["stone"], call.cost.value["stone"])

----------------------------------------------------------------------------
\* the castle's level-1 rate of a resource, 0 for one it has no rate for
CastleRate(r) ==
  IF r \in DOMAIN CASTLE_BASE_RATES THEN CASTLE_BASE_RATES[r] ELSE Whole(0)

\* the store as created, before any call
Fresh == call.op = "create" /\ tiles = createInitialGrid

(* C12: in the initial state every modifier is 1.0 and total[r] is the     *)
(* global base generation rate of r plus the castle's level-1 base rate of *)
(* r, for every resource r.                                                *)
C12_FreshRates ==
  Fresh =>
    \A r \in Resources :
      /\ r \in DOMAIN resourceRates.modifiers
      /\ NumEq(resourceRates.modifiers[r], Whole(1))
      /\ r \in DOMAIN resourceRates.total
      /\ NumEq(resourceRates.total[r], Add(BASE_GENERATION_RATES[r], CastleRate(r)))

\* what the fresh store does satisfy: the claim for the five resources of the
\* modifiers literal
FreshRatesMaterials ==
  Fresh =>
    \A r \in DOMAIN InitialModifiers :
      /\ NumEq(resourceRates.modifiers[r], Whole(1))
      /\ NumEq(resourceRates.total[r], Add(BASE_GENERATION_RATES[r], CastleRate(r)))

----------------------------------------------------------------------------
\* the catalog's cost of upgrading a castle that is at a level (levels count
\* from 1, as the entries of the catalog do here)
CatalogCost(level) == CASTLE_UPGRADE.upgradeCosts[level]

(* C13: the castle's stored upgrade cost is the catalog's cost for its      *)
(* current level while the level is below maxLevel, and is null exactly     *)
(* when the level equals maxLevel; a successful upgradeCastle leaves the    *)
(* cost of the new level, so no null cost appears before maxLevel.          *)
C13_StoredUpgradeCost ==
  LET castle == CastleOf(tiles)
  IN  /\ castle.level < CASTLE_UPGRADE.maxLevel =>
            castle.upgradeCost = <<CatalogCost(castle.level)>>
      /\ (castle.upgradeCost = <<>>) <=> (castle.level = CASTLE_UPGRADE.maxLevel)

\* the upgrade that reaches maxLevel has just left a null cost, the one before
\* it having stored the cost of level 2
C13_Witness ==
  /\ Upgraded
  /\ CastleOf(before.tiles).level = CASTLE_UPGRADE.maxLevel - 1
  /\ CastleOf(before.tiles).upgradeCost = <<CatalogCost(CASTLE_UPGRADE.maxLevel - 1)>>
  /\ CastleOf(tiles).level = CASTLE_UPGRADE.maxLevel
  /\ CastleOf(tiles).upgradeCost = <<>>

----------------------------------------------------------------------------
(* C14: the castle level is an integer from 1 to maxLevel in every state;   *)
(* it never decreases, and it changes only in a successful upgradeCastle,   *)
(* by exactly one (buyTile and tick leave it alone).                        *)
C14_LevelSteps ==
  /\ [](CastleOf(tiles).level \in 1 .. CASTLE_UPGRADE.maxLevel)
  /\ [][CastleOf(tiles').level # CastleOf(tiles).level =>
          /\ CastleOf(tiles').level = CastleOf(tiles).level + 1
          /\ call'.op = "upgradeCastle"
          /\ call'.ret]_vars

\* an upgrade has raised the level by one after a purchase had left it alone
C14_Witness ==
  /\ Upgraded
  /\ Cardinality(OwnedCells(before.tiles)) >= 2
  /\ CastleOf(before.tiles).level = 1
  /\ CastleOf(tiles).level = 2

----------------------------------------------------------------------------
MaterialsNeverNegative ==
  \A r \in DOMAIN InitialModifiers : Geq(Get(resources, r), Whole(0))

----------------------------------------------------------------------------
(* The operations as the event loop runs them: a call reads its snapshot    *)
(* with get(), computes, and hands one object to set().  The timer callback *)
(* and the click handlers are synchronous functions, so a call starts only  *)
(* when no other call is on the stack.                                      *)

\* a call that starts although another one has not returned
StackAny == TRUE

\* lines 102-145, 147-199, 201-212: no await between get() and set(), the call
\* runs to completion before the event loop starts another
StackEmpty == running = {}

\* set(partial): the fields named replace those of the current state
Merge(s, partial) ==
  [f \in DOMAIN s |-> IF f \in DOMAIN partial THEN partial[f] ELSE s[f]]

\* return false, set() not called
NothingSet == [ret |-> FALSE, set |-> [f \in {} |-> {}]]

\* lines 134-142 and 191-196: the object handed to set()
AllSet(newTiles, newResources, newRates) ==
  [ret |-> TRUE,
   set |-> [tiles |-> newTiles, resources |-> newResources,
            resourceRates |-> newRates, resourceModifiers |-> newRates.modifiers]]

\* lines 102-145 on the snapshot s = get()
buyTileOn(s, x, y, randomBiome) ==
  IF NotPurchasable(s.tiles, x, y) THEN NothingSet
  ELSE IF Lt(s.resources.gold, Whole(TILE_PURCHASE_COST)) THEN NothingSet
  ELSE LET newTiles == [s.tiles EXCEPT ![y][x] = BoughtTile(randomBiome)]
       IN  AllSet(newTiles, ResourcesAfterPurchase(s.resources),
                  calculateResourceRates(newTiles))

\* lines 147-199 on the snapshot s = get()
upgradeCastleOn(s) ==
  LET i == FindCastle(s.tiles, 0)
  IN  IF i = NumCells THEN NothingSet
      ELSE LET castleX == Cell(i).x
               castleY == Cell(i).y
               castle  == s.tiles[castleY][castleX]
           IN  IF Unupgradeable(castle) THEN NothingSet
               ELSE IF castle.level >= CASTLE_UPGRADE.maxLevel THEN NothingSet
               ELSE IF ~canAffordCost(s.resources, ObjectValue(castle.upgradeCost[1]))
               THEN NothingSet
               ELSE LET newTiles ==
                          [s.tiles EXCEPT ![castleY][castleX] = UpgradedCastle(castle)]
                    IN  AllSet(newTiles, Deduct(s.resources, castle.upgradeCost[1]),
                               calculateResourceRates(newTiles))

\* lines 201-212 on the snapshot s = get(): set({ resources: newResources })
tickOn(s, deltaTime) ==
  [ret |-> TRUE,
   set |-> [resources |-> Accrue(s.resources, s.resourceRates.total, deltaTime)]]

\* what a call with these arguments does on a snapshot
Outcome(op, args, s, randomBiome) ==
  IF op = "buyTile" THEN buyTileOn(s, args[1], args[2], randomBiome)
  ELSE IF op = "upgradeCastle" THEN upgradeCastleOn(s)
  ELSE tickOn(s, args[1])

\* the calls the page can make: clicks on a tile, on the upgrade button, and
\* firings of the timer
Invocations ==
  {[op |-> "buyTile", args |-> <<c[1], c[2]>>] : c \in Xs \X Ys}
    \cup {[op |-> "upgradeCastle", args |-> <<>>]}
    \cup {[op |-> "tick", args |-> <<d>>] : d \in Deltas}

\* const state = get(), the first statement of each operation
Begin(inv) ==
  /\ StackEmpty
  /\ inv.op = "tick" => ticks < MaxTicks
  /\ ticks' = IF inv.op = "tick" THEN ticks + 1 ELSE ticks
  /\ running' = running \cup {[op |-> inv.op, args |-> inv.args, state |-> Snapshot]}
  /\ UNCHANGED <<state, call, before, page>>

\* line 122: Math.random() is reached only by a buyTile past both checks
RandomDraws(h) ==
  IF h.op = "buyTile" /\ buyTileOn(h.state, h.args[1], h.args[2], "empty").ret
  THEN availableBiomes
  ELSE {"empty"}

\* the rest of the operation, computed from its snapshot, ending in at most
\* one set()
Complete(h) ==
  \E randomBiome \in RandomDraws(h) :
    LET out == Outcome(h.op, h.args, h.state, randomBiome)
        new == Merge(Snapshot, out.set)
    IN  /\ tiles' = new.tiles
        /\ resources' = new.resources
        /\ resourceRates' = new.resourceRates
        /\ resourceModifiers' = new.resourceModifiers
        /\ running' = running \ {h}
        /\ call' = [op |-> h.op, args |-> h.args, ret |-> out.ret,
                    randomBiome |-> randomBiome]
        /\ before' = Snapshot
        /\ UNCHANGED <<ticks, page>>

NextEventLoop ==
  \/ \E inv \in Invocations : Begin(inv)
  \/ \E h \in running : Complete(h)

SpecEventLoop == Init /\ [][NextEventLoop]_vars

\* the state after the last call is the one the call gives when applied, as a
\* whole, to the state it was committed on
AppliedInOrder ==
  call.op # "create" =>
    Snapshot = Merge(before, Outcome(call.op, call.args, before, call.randomBiome).set)

(* C16: each of buyTile, upgradeCastle and tick reads one snapshot and      *)
(* commits as one step: in every state under every interleaving of timer    *)
(* firings with purchases and upgrades the rates are those of the tiles     *)
(* stored with them, no call computes on a snapshot another call has        *)
(* replaced, and the state equals the calls applied one after another.      *)
C16_AtomicOperations ==
  /\ resourceRates = calculateResourceRates(tiles)
  /\ resourceModifiers = resourceRates.modifiers
  /\ \A h \in running : h.state = Snapshot
  /\ AppliedInOrder

\* a timer firing has been applied after a purchase, on the rates and the gold
\* the purchase left
C16_Witness ==
  /\ call.op = "tick"
  /\ call.args[1] > 0
  /\ Cardinality(OwnedCells(tiles)) >= 2
  /\ before.tiles = tiles
  /\ resources # before.resources
  /\ running = {}

----------------------------------------------------------------------------
(* Ticks in a row on one rate snapshot: any castle level, either neighbour  *)
(* of the castle bought or not, any holdings                                *)

\* what a cell beside the castle can be
Plots == {"empty"} \cup availableBiomes

\* lines 127-130, or lines 13-16 for a cell never bought
Plot(biome) ==
  IF biome = "empty" THEN [biome |-> "empty", isOwned |-> FALSE] ELSE BoughtTile(biome)

\* lines 177-181 applied level - 1 times to the initial castle
CastleAt(level) ==
  [InitialCastle EXCEPT !.level = level, !.upgradeCost = NextUpgradeCost(level - 1)]

\* the grid with the castle at a level and the cells left and right of it
GridWith(level, left, right) ==
  [createInitialGrid EXCEPT
     ![GRID_CENTER_Y][GRID_CENTER_X] = CastleAt(level),
     ![GRID_CENTER_Y][GRID_CENTER_X - 1] = Plot(left),
     ![GRID_CENTER_Y][GRID_CENTER_X + 1] = Plot(right)]

InitTicks ==
  /\ \E level \in 1 .. CASTLE_UPGRADE.maxLevel, left \in Plots, right \in Plots :
       tiles = GridWith(level, left, right)
  /\ \E g \in 0 .. MaxAmount, n \in 0 .. MaxAmount :
       resources = [r \in Resources |-> IF r = "gold" THEN Whole(g) ELSE Whole(n)]
  /\ resourceRates = calculateResourceRates(tiles)
  /\ resourceModifiers = resourceRates.modifiers
  /\ call = [op |-> "create"]
  /\ before = Snapshot
  /\ ticks = 0
  /\ running = {}
  /\ page = Unrendered

\* lines 201-212, remembering the state the run of ticks started from and
\* the time it has covered
tickInARow(deltaTime) ==
  LET first == call.op # "tick"
  IN  /\ ticks < MaxTicks
      /\ ticks' = ticks + 1
      /\ resources' = Accrue(resources, resourceRates.total, deltaTime)
      /\ UNCHANGED <<tiles, resourceRates, resourceModifiers>>
      /\ call' = [op |-> "tick", deltaTime |-> deltaTime,
                  elapsed |-> IF first THEN deltaTime ELSE call.elapsed + deltaTime,
                  row |-> IF first THEN 1 ELSE call.row + 1]
      /\ before' = IF first THEN Snapshot ELSE before
      /\ UNCHANGED <<running, page>>

NextTicks == \E deltaTime \in Deltas : tickInARow(deltaTime)

SpecTicks == InitTicks /\ [][NextTicks]_vars

----------------------------------------------------------------------------
(* The driving loop of the Home page (src/unnamed/part_000)                 *)

\* the clock moves in steps of half a timer period, so a firing can come
\* early, on time or late
ClockStep == TICK_RATE \div 2

\* Date.now() when the page renders first
MountTimes == {0, TICK_RATE, 3 * ClockStep}

\* the timer's period handed on in place of the measured time
deltaTimeNominal(currentTime, lastTickTime) == TICK_RATE

\* line 16: deltaTime = currentTime - lastTickTime.current
deltaTimeOf(currentTime, lastTickTime) == currentTime - lastTickTime

\* line 11: lastTickTime = useRef(Date.now()); mountTime and passed (the sum
\* of the deltas handed to tick) and previous (the firing before the last)
\* are kept for the properties only
InitLoop ==
  /\ tiles = createInitialGrid
  /\ resources = INITIAL_RESOURCES
  /\ resourceRates = calculateResourceRates(createInitialGrid)
  /\ resourceModifiers = resourceRates.modifiers
  /\ call = [op |-> "create"]
  /\ before = Snapshot
  /\ ticks = 0
  /\ running = {}
  /\ \E t \in MountTimes :
       page = [now |-> t, lastTickTime |-> t, mountTime |-> t, passed |-> 0,
               previous |-> t, steps |-> 0]

\* time passes between two firings of the timer
Elapse ==
  /\ page.steps < MaxClock
  /\ page' = [page EXCEPT !.now = page.now + ClockStep, !.steps = page.steps + 1]
  /\ UNCHANGED <<state, call, before, ticks, running>>

\* lines 14-20: one firing of setInterval(gameLoop, TICK_RATE)
gameLoop ==
  LET currentTime == page.now
      deltaTime   == deltaTimeOf(currentTime, page.lastTickTime)
  IN  /\ ticks < MaxFirings
      /\ ticks' = ticks + 1
      /\ page' = [page EXCEPT !.lastTickTime = currentTime,
                              !.previous = page.lastTickTime,
                              !.passed = page.passed + deltaTime]
      /\ resources' = Accrue(resources, resourceRates.total, deltaTime)
      /\ UNCHANGED <<tiles, resourceRates, resourceModifiers, running>>
      /\ call' = [op |-> "tick", deltaTime |-> deltaTime]
      /\ before' = Snapshot

NextLoop == Elapse \/ gameLoop

SpecLoop == InitLoop /\ [][NextLoop]_vars

(* C18: at each firing the delta given to tick is the current time minus    *)
(* the time of the previous firing (of mount for the first), so after any   *)
(* number of firings, late or skipped ones included, the deltas given to    *)
(* tick add up to the time of the last firing minus the mount time.         *)
C18_DeltasTelescope ==
  /\ page.passed = page.lastTickTime - page.mountTime
  /\ call.op = "tick" => call.deltaTime = page.lastTickTime - page.previous
  /\ ticks = 0 => page.lastTickTime = page.mountTime

\* the last of several firings came late, three clock steps after the one
\* before it, which had come early
C18_Witness ==
  /\ call.op = "tick"
  /\ ticks >= 3
  /\ call.deltaTime = 3 * ClockStep
  /\ page.previous - page.mountTime = ClockStep
  /\ page.now = page.lastTickTime

----------------------------------------------------------------------------
(* The modifiers of the rate calculator on any grid of at most MaxOwned     *)
(* bought tiles, and on the same tiles laid out in another order            *)

\* the cells other than the castle's
Land == Cells \ {<<GRID_CENTER_X, GRID_CENTER_Y>>}

\* the grid whose bought cells are those of the function bought, cell to biome
GridBought(bought) ==
  [y \in Ys |-> [x \in Xs |->
     IF <<x, y>> \in DOMAIN bought THEN BoughtTile(bought[<<x, y>>])
     ELSE createInitialGrid[y][x]]]

\* the ways of moving the tiles: cell i takes the tile of cell i + k in scan
\* order (one cell on, or one row and one cell on), or of the cell counted
\* from the end
Layouts == {0 - 1, 1, GRID_SIZE + 1}

Moved(grid, k) ==
  [y \in Ys |-> [x \in Xs |->
     LET i == y * GRID_SIZE + x
         j == IF k < 0 THEN NumCells - 1 - i ELSE (i + k) % NumCells
     IN  grid[Cell(j).y][Cell(j).x]]]

InitModifiers ==
  /\ \E owned \in {S \in SUBSET Land : Cardinality(S) <= MaxOwned} :
       \E bought \in [owned -> availableBiomes] : tiles = GridBought(bought)
  /\ resources = INITIAL_RESOURCES
  /\ resourceRates = calculateResourceRates(tiles)
  /\ resourceModifiers = resourceRates.modifiers
  /\ call = [op |-> "create"]
  /\ before = Snapshot
  /\ ticks = 0
  /\ running = {}
  /\ page = Unrendered

\* calculateResourceRates on the grid and on the grid with its tiles moved
ProbeModifiers(k) ==
  /\ call' = [op |-> "calculateResourceRates", layout |-> k,
              ret |-> calculateResourceRates(tiles).modifiers,
              moved |-> calculateResourceRates(Moved(tiles, k)).modifiers]
  /\ before' = Snapshot
  /\ UNCHANGED <<tiles, resources, resourceRates, resourceModifiers, ticks,
                 running, page>>

NextModifiers == \E k \in Layouts : ProbeModifiers(k)

SpecModifiers == InitModifiers /\ [][NextModifiers]_vars

\* how many owned tiles of a grid have a biome
CountOf(grid, biome) ==
  Cardinality({c \in Cells : grid[c[2]][c[1]].isOwned /\ grid[c[2]][c[1]].biome = biome})

\* the factor a biome puts on a resource, 1 if it names none
Factor(biome, r) ==
  IF r \in DOMAIN BIOMES[biome].resourceModifiers
  THEN BIOMES[biome].resourceModifiers[r]
  ELSE Whole(1)

\* the product, over the biomes of a set, of factor ^ count
RECURSIVE ProductOver(_, _, _)
ProductOver(biomes, grid, r) ==
  IF biomes = {} THEN Whole(1)
  ELSE LET b == CHOOSE b \in biomes : TRUE
       IN  Mul(Pow(Factor(b, r), CountOf(grid, b)), ProductOver(biomes \ {b}, grid, r))

----------------------------------------------------------------------------
\* two cells one step up, down, left or right of each other
Beside(c, d) ==
  \/ c[1] = d[1] /\ (c[2] = d[2] + 1 \/ d[2] = c[2] + 1)
  \/ c[2] = d[2] /\ (c[1] = d[1] + 1 \/ d[1] = c[1] + 1)

\* the owned cells that paths of owned cells reach from the cells of found
RECURSIVE ReachedFrom(_, _)
ReachedFrom(found, owned) ==
  LET more == {c \in owned \ found : \E d \in found : Beside(c, d)}
  IN  IF more = {} THEN found ELSE ReachedFrom(found \cup more, owned)

\* the castle's cell
Centre == <<GRID_CENTER_X, GRID_CENTER_Y>>

(* C20: the owned tiles are 4-connected and contain the castle: every owned *)
(* tile is reached from the castle tile through owned tiles by steps up,    *)
(* down, left and right.                                                    *)
C20_OwnedConnected ==
  /\ Centre \in OwnedCells(tiles)
  /\ CastleOf(tiles).biome = "castle"
  /\ ReachedFrom({Centre}, OwnedCells(tiles)) = OwnedCells(tiles)

\* a tile two steps from the castle has been bought through the one between
C20_Witness ==
  /\ Bought
  /\ ~Beside(<<call.x, call.y>>, Centre)
  /\ <<call.x, call.y>> \in ReachedFrom({Centre}, OwnedCells(tiles))
  /\ Cardinality(OwnedCells(tiles)) = 3
=============================================================================
